---- MODULE Spec2Model ----
(***************************************************************************)
(* Model of lib/log.py (SCION logging utilities): the rotating file        *)
(* handler _LoggingErrorHandler, init_logging and log_exception, together  *)
(* with the parts of the standard logging package they delegate to.        *)
(*                                                                         *)
(* Text is a sequence of tokens; the token "\n" is the line break.  Every  *)
(* token counts as one byte of file size.  Handler.handle runs emit under  *)
(* the handler's lock and emit writes a line with one stream.write, so a   *)
(* successful emit is one step; a failing emit keeps the lock while        *)
(* handleError runs.                                                       *)
(***************************************************************************)
EXTENDS Integers, Sequences, FiniteSets, TLC

\* ---------------------------------------------------------------- bounds
MaxCalls == 3      \* calls of init_logging / logging.log / log_exception
MaxFaults == 2     \* writes to the file stream that raise (e.g. disk full)
NearCap == 10      \* a log file left by an earlier run is this far below the cap

\* ------------------------------------------------------------- constants
LOG_MAX_SIZE == 1*1024*1024
backupCount == 0
LevelNo == [DEBUG |-> 10, INFO |-> 20, WARNING |-> 30, ERROR |-> 40, CRITICAL |-> 50]
RootDefaultLevel == "WARNING"
DefaultInitLevel == "DEBUG"
DefaultExcLevel == "CRITICAL"

MainThread == "MainThread"
Threads == {MainThread, "Thread-1"}
NoThread == "none"
Paths == {"scion.log", "other.log"}
NL == "\n"
HEADER == "Exception in logging module:"

\* ----------------------------------------------------------------- inputs
\* log_file / level of the init_logging calls
InitInputs ==
  { [path |-> "scion.log", level |-> DefaultInitLevel],
    [path |-> "other.log", level |-> "ERROR"] }
\* level / msg / args of the application's direct logging.log calls
LogInputs ==
  { [level |-> "INFO", msg |-> <<"a", NL, "b">>, args |-> <<>>],
    [level |-> "ERROR", msg |-> <<"got", "%s">>, args |-> <<"v">>] }
\* level / msg / args of log_exception and the exception being handled by the
\* caller; the args of the third do not fit its msg
ExcInputs ==
  { [level |-> "ERROR", msg |-> <<"failed">>, args |-> <<>>, exc |-> "ValueError"],
    [level |-> DefaultExcLevel, msg |-> <<"failed">>, args |-> <<>>, exc |-> "none"],
    [level |-> "ERROR", msg |-> <<"failed">>, args |-> <<"v">>, exc |-> "ValueError"] }
\* the calls made by concurrent threads
ConcExcInputs ==
  { [level |-> "ERROR", msg |-> <<"failed">>, args |-> <<>>, exc |-> "ValueError"],
    [level |-> DefaultExcLevel, msg |-> <<"oops">>, args |-> <<"v">>, exc |-> "none"] }
PreSizes == {0, LOG_MAX_SIZE - NearCap}

VARIABLES
  handlers,   \* logging.root.handlers
  rootLevel,  \* logging.root.level
  files,      \* the log files on disk
  archives,   \* rotated files on disk (paths with a numeric suffix)
  stderr,     \* text written to sys.stderr
  lock,       \* the thread that holds the installed handler's lock across steps
  faults,     \* how many writes to the file stream have raised so far
  th,         \* per thread: position inside the current call
  calls,      \* history: every call made, with the records it passed to logging.log
  written,    \* history: every text a handler wrote to its stream, in write order
  herr,       \* history: every handleError invocation
  rollovers   \* history: number of doRollover calls

vars == <<handlers, rootLevel, files, archives, stderr, lock, faults,
          th, calls, written, herr, rollovers>>

\* ------------------------------------------------------- pure functions
RECURSIVE SplitAcc(_, _, _)
SplitAcc(s, cur, acc) ==
  IF s = <<>> THEN Append(acc, cur)
  ELSE IF Head(s) = NL THEN SplitAcc(Tail(s), <<>>, Append(acc, cur))
  ELSE SplitAcc(Tail(s), Append(cur, Head(s)), acc)

\* str.split("\n")
Split(s) == SplitAcc(s, <<>>, <<>>)

RECURSIVE Concat(_)
Concat(ss) == IF ss = <<>> THEN <<>> ELSE Head(ss) \o Concat(Tail(ss))

RECURSIVE Frames(_)
Frames(n) == IF n = 0 THEN <<>> ELSE <<"  File ...", NL>> \o Frames(n - 1)

\* traceback.format_exc() for the exception being handled
format_exc(e, nframes) ==
  IF e = "none" THEN <<"NoneType: None", NL>>
  ELSE <<"Traceback (most recent call last):", NL>> \o Frames(nframes) \o <<e, NL>>

RECURSIVE CountPlaceholders(_)
CountPlaceholders(msg) ==
  IF msg = <<>> THEN 0
  ELSE (IF Head(msg) = "%s" THEN 1 ELSE 0) + CountPlaceholders(Tail(msg))

RECURSIVE Substitute(_, _)
Substitute(msg, args) ==
  IF msg = <<>> THEN <<>>
  ELSE IF Head(msg) = "%s" THEN <<Head(args)>> \o Substitute(Tail(msg), Tail(args))
  ELSE <<Head(msg)>> \o Substitute(Tail(msg), args)

\* LogRecord.getMessage(): msg % args, only when args were given
CanFormat(rec) == rec.args = <<>> \/ CountPlaceholders(rec.msg) = Len(rec.args)
getMessage(rec) == IF rec.args = <<>> THEN rec.msg ELSE Substitute(rec.msg, rec.args)

\* a format string that names the process instead of the thread
Format_processName(rec) ==
  <<"asctime", " ", "[", rec.level, "]", " ", "(", "MainProcess", ")", " ">>
  \o getMessage(rec)

\* a format string that leaves the level out
Format_noLevel(rec) ==
  <<"asctime", " ", "(", rec.thread, ")", " ">> \o getMessage(rec)

\* '%(asctime)s [%(levelname)s] (%(threadName)s) %(message)s'
Format(rec) ==
  <<"asctime", " ", "[", rec.level, "]", " ", "(", rec.thread, ")", " ">> \o getMessage(rec)

\* logging.BASIC_FORMAT, used by the handler that logging.log installs itself
BasicFormat(rec) == <<rec.level, ":", "root", ":">> \o getMessage(rec)

FileSize(f) == f.pre + Len(f.text)

\* RotatingFileHandler.shouldRollover with maxBytes = LOG_MAX_SIZE
ShouldRollover(f, line) ==
  LOG_MAX_SIZE > 0 /\ FileSize(f) + Len(line) >= LOG_MAX_SIZE

\* RotatingFileHandler.doRollover: the stream is closed and reopened in append
\* mode; the file is renamed to an archive only when backupCount > 0
DoRolloverFile(f) ==
  IF backupCount > 0 THEN [f EXCEPT !.pre = 0, !.text = <<>>] ELSE f
DoRolloverArchives(path, arch) ==
  IF backupCount > 0 THEN arch \cup {path} ELSE arch

\* a handleError that reports and returns instead of raising again
HandleErrorOps_noRaise(tb) ==
  <<[op |-> "write", arg |-> <<HEADER, NL>>]>>
  \o [i \in 1..Len(Split(tb)) |-> [op |-> "write", arg |-> Append(Split(tb)[i], NL)]]
  \o <<[op |-> "flush", arg |-> <<>>]>>

\* a handleError that raises again before it has flushed
HandleErrorOps_noFlush(tb) ==
  <<[op |-> "write", arg |-> <<HEADER, NL>>]>>
  \o [i \in 1..Len(Split(tb)) |-> [op |-> "write", arg |-> Append(Split(tb)[i], NL)]]
  \o <<[op |-> "raise", arg |-> <<>>]>>

\* the statements of handleError, as the sequence of stream operations
HandleErrorOps(tb) ==
  <<[op |-> "write", arg |-> <<HEADER, NL>>]>>
  \o [i \in 1..Len(Split(tb)) |-> [op |-> "write", arg |-> Append(Split(tb)[i], NL)]]
  \o <<[op |-> "flush", arg |-> <<>>], [op |-> "raise", arg |-> <<>>]>>

OpsText(ops) == Concat([i \in 1..Len(ops) |-> ops[i].arg])

\* ------------------------------------------------------------ the state
\* pc: idle | msg | lines | herr;  id: the call;  todo: what the call has still
\* to hand to logging.log;  err, frames: the exception being handled inside the
\* handler;  left: handleError invocations still to come for it
IdleFrame == [pc |-> "idle", id |-> 0, stage |-> "", todo |-> <<>>,
              err |-> "", left |-> 0, frames |-> 0]

FileHandler(path) == [cls |-> "_LoggingErrorHandler", path |-> path]
StderrHandler == [cls |-> "StreamHandler", path |-> "stderr"]

Init ==
  /\ handlers = <<>>
  /\ rootLevel = RootDefaultLevel
  /\ \E p0 \in PreSizes :
       files = [p \in Paths |->
                  IF p = "scion.log"
                  THEN [exists |-> p0 > 0, pre |-> p0, text |-> <<>>]
                  ELSE [exists |-> FALSE, pre |-> 0, text |-> <<>>]]
  /\ archives = {}
  /\ stderr = <<>>
  /\ lock = NoThread
  /\ faults = 0
  /\ th = [t \in Threads |-> IdleFrame]
  /\ calls = <<>>
  /\ written = <<>>
  /\ herr = <<>>
  /\ rollovers = 0

\* ----------------------------------------------------------- operations
Installed(hs) == hs[1]

\* a configuration that adds its handler to the ones already installed
BasicConfigHandlers_layer(hs, handler) == Append(hs, handler)

\* a configuration that sets the level on every call
BasicConfigLevel_always(hs, old, level) == level

\* logging.basicConfig(level=level, handlers=[handler], format=...): does
\* nothing when the root logger already has handlers
BasicConfigHandlers(hs, handler) == IF hs = <<>> THEN <<handler>> ELSE hs
BasicConfigLevel(hs, old, level) == IF hs = <<>> THEN level ELSE old

NewCall(t, op, level, in, exc, path, status) ==
  [thread |-> t, op |-> op, level |-> level, msg |-> in.msg, args |-> in.args,
   exc |-> exc, path |-> path, logged |-> <<>>, status |-> status]

\* init_logging(log_file, level): the handler's constructor opens (creates)
\* log_file in append mode, then basicConfig installs it
init_logging(t, log_file, level) ==
  /\ th[t].pc = "idle"
  /\ Len(calls) < MaxCalls
  /\ files' = [files EXCEPT ![log_file].exists = TRUE]
  /\ handlers' = BasicConfigHandlers(handlers, FileHandler(log_file))
  /\ rootLevel' = BasicConfigLevel(handlers, rootLevel, level)
  /\ calls' = Append(calls, NewCall(t, "init_logging", level,
                                    [msg |-> <<>>, args |-> <<>>], "none",
                                    log_file, "returned"))
  /\ UNCHANGED <<archives, stderr, lock, faults, th, written, herr, rollovers>>

\* a log_exception that returns early when no exception is being handled
TracebackItems_skipNone(level, exc) ==
  IF exc = "none" THEN <<>>
  ELSE [i \in 1..Len(Split(format_exc(exc, 1))) |->
          [level |-> level, msg |-> Split(format_exc(exc, 1))[i], args |-> <<>>]]

\* the records log_exception logs after msg: one per element of
\* traceback.format_exc().split("\n"), each without args
TracebackItems(level, exc) ==
  [i \in 1..Len(Split(format_exc(exc, 1))) |->
     [level |-> level, msg |-> Split(format_exc(exc, 1))[i], args |-> <<>>]]

\* what the call still has to log once the current logging.log has returned
RestAfter(fr, c) ==
  IF c.op = "log_exception" /\ fr.stage = "msg"
  THEN TracebackItems(c.level, c.exc)
  ELSE Tail(fr.todo)

\* the frame of the thread after its current logging.log returned normally
Returned(fr, c) ==
  IF RestAfter(fr, c) = <<>> THEN IdleFrame
  ELSE [IdleFrame EXCEPT !.pc = "lines", !.id = fr.id, !.stage = "lines",
                         !.todo = RestAfter(fr, c)]

StatusAfter(fr, c) == IF RestAfter(fr, c) = <<>> THEN "returned" ELSE "running"

\* Logger.isEnabledFor: the root logger's threshold
isEnabledFor(level, threshold) == LevelNo[level] >= LevelNo[threshold]

\* logging.log(level, msg, *args) for the head of fr.todo, made by thread t
\* inside call fr.id of cs: basicConfig() when the root logger has no handler,
\* the level check, the record, then Handler.handle -> emit under the lock.
\*   _LoggingErrorHandler: BaseRotatingHandler.emit (shouldRollover formats
\*   the record, doRollover, StreamHandler.emit writes the line and flushes);
\*   a failure enters handleError with the lock held.
\*   StreamHandler on stderr: the default handleError reports and swallows.
\* fail: the file stream raises on this write.
logging_log(t, fr, cs, fail) ==
  LET item == Head(fr.todo)
      c == [cs[fr.id] EXCEPT !.logged = Append(@, item)]
      rec == [thread |-> t, level |-> item.level, msg |-> item.msg,
              args |-> item.args]
      hs == BasicConfigHandlers(handlers, StderrHandler)
      h == Installed(hs)
      done == [cs EXCEPT ![fr.id] = [c EXCEPT !.status = StatusAfter(fr, c)]]
  IN /\ lock = NoThread
     /\ handlers' = hs
     /\ rootLevel' = rootLevel
     /\ herr' = herr
     /\ IF ~isEnabledFor(item.level, rootLevel)
        THEN /\ ~fail
             /\ th' = [th EXCEPT ![t] = Returned(fr, c)]
             /\ calls' = done
             /\ UNCHANGED <<files, archives, stderr, lock, faults, written, rollovers>>
        ELSE IF h.cls = "StreamHandler"
        THEN /\ ~fail
             /\ stderr' = stderr \o (IF CanFormat(rec) THEN Append(BasicFormat(rec), NL)
                                     ELSE <<"--- Logging error ---", NL>>)
             /\ written' = Append(written,
                             IF CanFormat(rec)
                             THEN [kind |-> "record", call |-> fr.id, dest |-> h.path,
                                   chunk |-> Append(BasicFormat(rec), NL)]
                             ELSE [kind |-> "diag", call |-> fr.id, dest |-> h.path,
                                   chunk |-> <<"--- Logging error ---", NL>>])
             /\ th' = [th EXCEPT ![t] = Returned(fr, c)]
             /\ calls' = done
             /\ UNCHANGED <<files, archives, lock, faults, rollovers>>
        ELSE IF ~CanFormat(rec)
        THEN \* raised by self.format(record) inside shouldRollover
             /\ ~fail
             /\ th' = [th EXCEPT ![t] = [fr EXCEPT !.pc = "herr", !.err = "TypeError",
                                                    !.left = 1, !.frames = 1]]
             /\ calls' = [cs EXCEPT ![fr.id] = c]
             /\ lock' = t
             /\ UNCHANGED <<files, archives, stderr, faults, written, rollovers>>
        ELSE LET line == Append(Format(rec), NL)
                 roll == ShouldRollover(files[h.path], line)
                 f1 == IF roll THEN DoRolloverFile(files[h.path]) ELSE files[h.path]
             IN /\ archives' = IF roll THEN DoRolloverArchives(h.path, archives)
                                ELSE archives
                /\ rollovers' = IF roll THEN rollovers + 1 ELSE rollovers
                /\ stderr' = stderr
                /\ IF fail
                   THEN \* stream.write raises inside StreamHandler.emit
                        /\ faults < MaxFaults
                        /\ faults' = faults + 1
                        /\ files' = [files EXCEPT ![h.path] = f1]
                        /\ th' = [th EXCEPT ![t] = [fr EXCEPT !.pc = "herr",
                                     !.err = "OSError", !.left = 2, !.frames = 1]]
                        /\ calls' = [cs EXCEPT ![fr.id] = c]
                        /\ lock' = t
                        /\ written' = written
                   ELSE /\ faults' = faults
                        /\ files' = [files EXCEPT ![h.path] =
                                       [f1 EXCEPT !.text = @ \o line]]
                        /\ written' = Append(written, [kind |-> "record", call |-> fr.id,
                                                       dest |-> h.path, chunk |-> line])
                        /\ th' = [th EXCEPT ![t] = Returned(fr, c)]
                        /\ calls' = done
                        /\ lock' = lock

FirstFrame(id, in) ==
  [IdleFrame EXCEPT !.pc = "msg", !.id = id, !.stage = "msg",
                    !.todo = <<[level |-> in.level, msg |-> in.msg, args |-> in.args]>>]

\* a direct call of logging.log(level, msg, *args) by the application
CallLog(t, in, fail) ==
  /\ th[t].pc = "idle"
  /\ Len(calls) < MaxCalls
  /\ logging_log(t, FirstFrame(Len(calls) + 1, in),
                 Append(calls, NewCall(t, "log", in.level, in, "none", "", "running")),
                 fail)

\* log_exception(msg, *args, level=level), first statement: logging.log(level,
\* msg, *args).  in.exc is the exception the caller is handling ("none": none).
log_exception(t, in, fail) ==
  /\ th[t].pc = "idle"
  /\ Len(calls) < MaxCalls
  /\ logging_log(t, FirstFrame(Len(calls) + 1, in),
                 Append(calls, NewCall(t, "log_exception", in.level, in, in.exc, "",
                                       "running")),
                 fail)

\* log_exception, one iteration of the loop: logging.log(level, line)
LogLine(t, fail) ==
  /\ th[t].pc = "lines"
  /\ logging_log(t, th[t], calls, fail)

Raises(ops) == \E i \in 1..Len(ops) : ops[i].op = "raise"

\* a handleError that reports on sys.stderr, as logging.Handler.handleError does
ErrorStream_stderr(h) == "stderr"

\* self.stream of the installed _LoggingErrorHandler: the stream of its log file
ErrorStream(h) == h.path

\* _LoggingErrorHandler.handleError(record), called from the except clause of
\* StreamHandler.emit (left = 2) and of BaseRotatingHandler.emit (left = 1).
\* fail: self.stream raises on write, so the first statement raises and the
\* rest is not executed.
handleError(t, fail) ==
  LET fr == th[t]
      c == calls[fr.id]
      dest == ErrorStream(Installed(handlers))
      tb == format_exc(fr.err, fr.frames)
      ops == IF fail THEN <<[op |-> "write_raised", arg |-> <<>>]>>
             ELSE HandleErrorOps(tb)
      propagates == fail \/ Raises(ops)
  IN /\ fr.pc = "herr"
     /\ lock = t
     /\ fail => faults < MaxFaults
     /\ faults' = IF fail THEN faults + 1 ELSE faults
     /\ files' = IF dest \in Paths
                 THEN [files EXCEPT ![dest].text = @ \o OpsText(ops)] ELSE files
     /\ stderr' = IF dest \in Paths THEN stderr ELSE stderr \o OpsText(ops)
     /\ written' = IF fail THEN written
                   ELSE Append(written, [kind |-> "diag", call |-> fr.id,
                                         dest |-> dest, chunk |-> OpsText(ops)])
     /\ herr' = Append(herr, [call |-> fr.id, nlogged |-> Len(c.logged),
                              err |-> fr.err, tb |-> tb, fail |-> fail, ops |-> ops])
     /\ IF propagates /\ fr.left > 1
        THEN /\ th' = [th EXCEPT ![t] = [fr EXCEPT !.left = fr.left - 1,
                          !.err = IF fail THEN "OSError" ELSE fr.err,
                          !.frames = IF fail THEN 1 ELSE fr.frames + 1]]
             /\ UNCHANGED <<lock, calls>>
        ELSE IF propagates
        THEN \* out of Handler.handle (the lock is released) and out of the call
             /\ th' = [th EXCEPT ![t] = IdleFrame]
             /\ calls' = [calls EXCEPT ![fr.id].status = "raised"]
             /\ lock' = NoThread
        ELSE /\ th' = [th EXCEPT ![t] = Returned(fr, c)]
             /\ calls' = [calls EXCEPT ![fr.id].status = StatusAfter(fr, c)]
             /\ lock' = NoThread
     /\ UNCHANGED <<handlers, rootLevel, archives, rollovers>>

\* one thread: the component is used from the main thread only
Next ==
  \/ \E in \in InitInputs : init_logging(MainThread, in.path, in.level)
  \/ \E in \in LogInputs, fail \in BOOLEAN : CallLog(MainThread, in, fail)
  \/ \E in \in ExcInputs, fail \in BOOLEAN : log_exception(MainThread, in, fail)
  \/ \E fail \in BOOLEAN : LogLine(MainThread, fail)
  \/ \E fail \in BOOLEAN : handleError(MainThread, fail)

Spec == Init /\ [][Next]_vars

\* several threads, started after init_logging was called at startup, on a
\* stream that does not fail
NextConc ==
  \/ \E t \in Threads : init_logging(t, "scion.log", DefaultInitLevel)
  \/ \E t \in Threads, in \in ConcExcInputs :
       handlers # <<>> /\ log_exception(t, in, FALSE)
  \/ \E t \in Threads : LogLine(t, FALSE)
  \/ \E t \in Threads : handleError(t, FALSE)

\* no log file is left from an earlier run
InitConc == Init /\ \A p \in Paths : files[p].pre = 0

SpecConc == InitConc /\ [][NextConc]_vars

\* ================================================================ claims
FileInstalled == handlers # <<>> /\ Installed(handlers).cls = "_LoggingErrorHandler"

RECURSIVE CountNL(_)
CountNL(s) == IF s = <<>> THEN 0 ELSE (IF Head(s) = NL THEN 1 ELSE 0) + CountNL(Tail(s))

\* the documented layout of one line of the log file
FixedLine(thread, level, m) ==
  <<"asctime", " ", "[", level, "]", " ", "(", thread, ")", " ">> \o m

\* the records / all texts written for call id, in write order
RecordsOf(id) == SelectSeq(written, LAMBDA w : w.call = id /\ w.kind = "record")
TextOf(dest) ==
  Concat([i \in 1..Len(SelectSeq(written, LAMBDA w : w.dest = dest)) |->
            SelectSeq(written, LAMBDA w : w.dest = dest)[i].chunk])
RecordTextOf(dest) ==
  Concat([i \in 1..Len(SelectSeq(written, LAMBDA w : w.dest = dest /\ w.kind = "record")) |->
            SelectSeq(written, LAMBDA w : w.dest = dest /\ w.kind = "record")[i].chunk])

Finished(c) == c.status # "running"
CallIds == 1..Len(calls)

\* C1 (as stated): after init_logging on a root logger without handlers, every
\* logging call at a severity at or above the level produces exactly one line
\* of the log file, and a call below the level produces none.
C1_OneLinePerCall ==
  FileInstalled =>
    \A id \in CallIds :
      (calls[id].op = "log" /\ calls[id].status = "returned") =>
        LET n == CountNL(Concat([i \in 1..Len(RecordsOf(id)) |-> RecordsOf(id)[i].chunk]))
        IN IF isEnabledFor(calls[id].level, rootLevel) THEN n = 1 ELSE n = 0

\* C1 (amended): after init_logging on a root logger without handlers, every
\* logging call that returns normally at a severity at or above the level
\* appends exactly one record to the log file, the text
\* '<timestamp> [<LEVEL>] (<thread-name>) <m>' and a line break, which is one
\* line when m holds no line break and k+1 lines when it holds k; a call below
\* the level appends nothing.
C1_OneRecordPerCall ==
  FileInstalled =>
    /\ \A id \in CallIds :
         (calls[id].op = "log" /\ calls[id].status = "returned") =>
           IF isEnabledFor(calls[id].level, rootLevel)
           THEN /\ Len(RecordsOf(id)) = 1
                /\ RecordsOf(id)[1].dest = Installed(handlers).path
                /\ RecordsOf(id)[1].chunk =
                     Append(FixedLine(calls[id].thread, calls[id].level,
                                      getMessage(calls[id])), NL)
                /\ CountNL(RecordsOf(id)[1].chunk) = 1 + CountNL(getMessage(calls[id]))
           ELSE RecordsOf(id) = <<>>
    /\ herr = <<>> =>
         files[Installed(handlers).path].text = RecordTextOf(Installed(handlers).path)

C1_Witness ==
  /\ FileInstalled
  /\ \E id \in CallIds, jd \in CallIds :
       /\ calls[id].op = "log" /\ calls[id].status = "returned"
       /\ isEnabledFor(calls[id].level, rootLevel)
       /\ CountNL(getMessage(calls[id])) = 0
       /\ calls[jd].op = "log" /\ calls[jd].status = "returned"
       /\ ~isEnabledFor(calls[jd].level, rootLevel)

\* the lines of a text whose every line ends with a line break
RECURSIVE LinesAcc(_, _)
LinesAcc(s, cur) ==
  IF s = <<>> THEN <<>>
  ELSE IF Head(s) = NL THEN <<cur>> \o LinesAcc(Tail(s), <<>>)
  ELSE LinesAcc(Tail(s), Append(cur, Head(s)))
TextLines(s) == LinesAcc(s, <<>>)

\* C2 (as stated): log_exception called while an exception is being handled
\* emits the record for msg and then exactly one record per line of the
\* exception's formatted traceback, in the traceback's order, each at the
\* given severity, with no record more and none less.
C2_OneRecordPerTracebackLine ==
  \A id \in CallIds :
    (calls[id].op = "log_exception" /\ calls[id].exc # "none"
       /\ calls[id].status = "returned") =>
      calls[id].logged =
        <<[level |-> calls[id].level, msg |-> calls[id].msg, args |-> calls[id].args]>>
        \o [i \in 1..Len(TextLines(format_exc(calls[id].exc, 1))) |->
              [level |-> calls[id].level,
               msg |-> TextLines(format_exc(calls[id].exc, 1))[i], args |-> <<>>]]

\* C8: log_exception(msg) called while no exception is being handled does not
\* raise (an error reaches the caller only when a write to the sink's stream
\* raised); it emits the record for msg and then the line 'NoneType: None' of
\* the traceback capture, followed only by the empty remainder of that text,
\* all at the default severity CRITICAL.
C8_NoActiveException ==
  \A id \in CallIds :
    (calls[id].op = "log_exception" /\ calls[id].exc = "none"
       /\ calls[id].args = <<>> /\ calls[id].level = DefaultExcLevel
       /\ Finished(calls[id])) =>
      /\ calls[id].status = "raised" =>
           \E i \in 1..Len(herr) : herr[i].call = id /\ herr[i].err = "OSError"
      /\ calls[id].status = "returned" =>
           /\ Len(calls[id].logged) >= 2
           /\ calls[id].logged[1].msg = calls[id].msg
           /\ calls[id].logged[2].msg = <<"NoneType: None">>
           /\ \A i \in 1..Len(calls[id].logged) :
                /\ calls[id].logged[i].level = "CRITICAL"
                /\ i > 2 => calls[id].logged[i].msg = <<>>
           /\ FileInstalled /\ herr = <<>> =>
                /\ Len(RecordsOf(id)) = Len(calls[id].logged)
                /\ \A i \in 1..Len(RecordsOf(id)) :
                     RecordsOf(id)[i].chunk =
                       Append(FixedLine(calls[id].thread, "CRITICAL",
                                        calls[id].logged[i].msg), NL)

C8_Witness ==
  /\ FileInstalled
  /\ herr = <<>>
  /\ \E id \in CallIds :
       /\ calls[id].op = "log_exception" /\ calls[id].exc = "none"
       /\ calls[id].args = <<>> /\ calls[id].status = "returned"
       /\ Len(RecordsOf(id)) >= 2

\* ------------------------------------------------------------ handleError
HerrIds == 1..Len(herr)
CallThread(e) == calls[e.call].thread

\* the invocation wrote the header, then the traceback line by line in its
\* order (and at most blank lines besides), then flushed, then raised
InOrder(e) ==
  LET n == Len(e.ops)
      mid == SubSeq(e.ops, 2, n - 2)
      lines == SelectSeq(mid, LAMBDA o : o.arg # <<NL>>)
  IN /\ n >= 3
     /\ e.ops[1] = [op |-> "write", arg |-> <<HEADER, NL>>]
     /\ \A i \in 1..Len(mid) : mid[i].op = "write"
     /\ [i \in 1..Len(lines) |-> lines[i].arg] =
          [i \in 1..Len(TextLines(e.tb)) |-> Append(TextLines(e.tb)[i], NL)]
     /\ e.ops[n - 1].op = "flush"
     /\ e.ops[n].op = "raise"

\* the error did not end in handleError: the call is still inside the failing
\* emit, or it has ended by raising to its caller
Propagated(e) ==
  \/ calls[e.call].status = "raised"
  \/ /\ calls[e.call].status = "running"
     /\ th[CallThread(e)].pc = "herr"
     /\ th[CallThread(e)].id = e.call

\* C3 (as stated): whenever the sink fails while formatting or writing a
\* record, also when the stream itself raises on write, handleError writes
\* the header, writes the traceback line by line, flushes and raises again,
\* and the error reaches the caller of the logging call.
C3_HeaderTracebackFlushRaise ==
  \A i \in HerrIds : InOrder(herr[i]) /\ Propagated(herr[i])

\* C3 (amended): an invocation of handleError whose writes to the handler's
\* stream succeed writes the header, the traceback line by line, flushes and
\* raises again; an invocation whose first write raises performs nothing
\* else (no header, no traceback, no flush) and that error propagates; either
\* way an error reaches the caller of the logging call.
C3_InOrderWhenStreamWritable ==
  \A i \in HerrIds :
    /\ ~herr[i].fail => InOrder(herr[i])
    /\ herr[i].fail => herr[i].ops = <<[op |-> "write_raised", arg |-> <<>>]>>
    /\ Propagated(herr[i])

C3_Witness ==
  \E i \in HerrIds, j \in HerrIds :
    /\ herr[i].err = "OSError" /\ ~herr[i].fail /\ calls[herr[i].call].status = "raised"
    /\ herr[j].fail /\ calls[herr[j].call].status = "raised"

\* C4 (as stated): in every reachable state the log file holds nothing but
\* formatted log records; handleError leaves the log file unchanged.
C4_LogFileOnlyRecords ==
  \A p \in Paths : files[p].text = RecordTextOf(p)

\* C4 (amended): handleError writes the header and the traceback to the
\* installed handler's own stream, which is the configured log file: they are
\* appended to the log file, nothing is written to sys.stderr, and the log
\* file holds nothing but formatted log records as long as no handleError
\* invocation has written to it.
C4_DiagnosticsGoToLogFile ==
  FileInstalled =>
    /\ stderr = <<>>
    /\ \A p \in Paths : files[p].text = TextOf(p)
    /\ \A i \in 1..Len(written) :
         written[i].kind = "diag" =>
           /\ written[i].dest = Installed(handlers).path
           /\ SubSeq(written[i].chunk, 1, 2) = <<HEADER, NL>>
    /\ (\A i \in HerrIds : herr[i].fail) =>
         files[Installed(handlers).path].text = RecordTextOf(Installed(handlers).path)
    /\ Len(SelectSeq(written, LAMBDA w : w.kind = "diag")) =
         Len(SelectSeq(herr, LAMBDA e : ~e.fail))

C4_Witness ==
  /\ FileInstalled
  /\ \E i \in 1..Len(written) : written[i].kind = "diag"
  /\ \E i \in 1..Len(written) : written[i].kind = "record"
  /\ files[Installed(handlers).path].text # RecordTextOf(Installed(handlers).path)

\* C9: when emitting the message record of log_exception fails inside the
\* installed _LoggingErrorHandler, the error is not swallowed: the call ends by
\* raising to its caller and emits none of its traceback-line records.
C9_MessageFailurePropagates ==
  \A i \in HerrIds :
    (calls[herr[i].call].op = "log_exception" /\ herr[i].nlogged = 1) =>
      /\ Propagated(herr[i])
      /\ Len(calls[herr[i].call].logged) = 1
      /\ RecordsOf(herr[i].call) = <<>>

C9_Witness ==
  \E i \in HerrIds :
    /\ calls[herr[i].call].op = "log_exception"
    /\ herr[i].nlogged = 1
    /\ herr[i].err = "TypeError"
    /\ calls[herr[i].call].exc # "none"
    /\ calls[herr[i].call].status = "raised"

\* --------------------------------------------------------------- rotation
\* C5 (as stated): the active log file never grows past LOG_MAX_SIZE, and once
\* a write made a rollover due, the earlier content is kept in an archived
\* file beside the active one.
C5_RotatesAtMaxSize ==
  /\ \A p \in Paths : FileSize(files[p]) <= LOG_MAX_SIZE
  /\ rollovers > 0 => archives # {}

\* ------------------------------------------------------------- the one sink
EnabledItems(c) == SelectSeq(c.logged, LAMBDA it : isEnabledFor(it.level, rootLevel))

\* C6: at most one handler is installed on the root logger, whatever the
\* sequence of init_logging and logging calls, and every record of every call,
\* log_exception's included, is written by that handler to its stream and to
\* no other destination.
C6_SingleSink ==
  /\ Len(handlers) <= 1
  /\ \A i \in 1..Len(written) :
       handlers # <<>> /\ written[i].dest = Installed(handlers).path
  /\ \A p \in Paths :
       (handlers = <<>> \/ Installed(handlers).path # p) => files[p].text = <<>>
  /\ (handlers = <<>> \/ Installed(handlers).path # "stderr") => stderr = <<>>
  /\ FileInstalled =>
       \A id \in CallIds :
         calls[id].status = "returned" /\ calls[id].op # "init_logging" =>
           Len(RecordsOf(id)) = Len(EnabledItems(calls[id]))

C6_Witness ==
  /\ FileInstalled
  /\ \E i \in CallIds, j \in CallIds, k \in CallIds :
       /\ i < j
       /\ calls[i].op = "init_logging" /\ calls[j].op = "init_logging"
       /\ calls[k].op = "log_exception" /\ calls[k].status = "returned"
       /\ Len(RecordsOf(k)) >= 3

\* C10: an init_logging call made when the root logger already has a handler
\* changes neither the installed handler, nor the file records are written to,
\* nor the threshold: all three stay as the first configuring call set them.
C10_SecondInitHasNoEffect ==
  calls # <<>> =>
    LET first == calls[1]
        handler == IF first.op = "init_logging" THEN FileHandler(first.path)
                   ELSE StderrHandler
        level == IF first.op = "init_logging" THEN first.level ELSE RootDefaultLevel
    IN /\ handlers = <<handler>>
       /\ rootLevel = level
       /\ \A i \in 1..Len(written) : written[i].dest = handler.path
       /\ \A id \in CallIds :
            (calls[id].op = "log" /\ calls[id].status = "returned") =>
              (RecordsOf(id) # <<>> <=> isEnabledFor(calls[id].level, level))

C10_Witness ==
  \E i \in CallIds, j \in CallIds, k \in CallIds :
    /\ i < j /\ j < k
    /\ calls[i].op = "init_logging" /\ calls[j].op = "init_logging"
    /\ calls[i].path # calls[j].path /\ calls[i].level # calls[j].level
    /\ calls[k].op = "log" /\ calls[k].status = "returned"
    /\ isEnabledFor(calls[k].level, calls[i].level)
         # isEnabledFor(calls[k].level, calls[j].level)

\* ------------------------------------------------------------ concurrency
\* C7: with several threads calling log_exception concurrently, the log file
\* is a sequence of whole texts, each record being one line of its own; the
\* records of one call appear in the order the call emitted them, and the
\* thread-name field of each is the thread that made the call.
C7_IntactLinesPerThread ==
  /\ \A p \in Paths : files[p].text = TextOf(p)
  /\ \A id \in CallIds :
       calls[id].op = "log_exception" =>
         /\ Len(RecordsOf(id)) <= Len(calls[id].logged)
         /\ \A k \in 1..Len(RecordsOf(id)) :
              /\ RecordsOf(id)[k].chunk =
                   Append(FixedLine(calls[id].thread, calls[id].level,
                                    calls[id].logged[k].msg), NL)
              /\ CountNL(RecordsOf(id)[k].chunk) = 1

C7_Witness ==
  \E i \in 1..Len(written), j \in 1..Len(written), k \in 1..Len(written) :
    /\ i < j /\ j < k
    /\ written[i].kind = "record" /\ written[j].kind = "record"
    /\ written[k].kind = "record"
    /\ written[i].call = written[k].call
    /\ written[i].call # written[j].call
    /\ calls[written[i].call].thread # calls[written[j].call].thread
    /\ calls[written[i].call].op = "log_exception"
    /\ calls[written[j].call].op = "log_exception"

====
